---------------------------- MODULE Spec2Model ----------------------------
(* Model of src/main.py: the 4 Card Tic-tac-toe equity calculator.          *)
(* Cards are records (rank, suit); a card name is the sequence of its       *)
(* characters; Python's None is the record None (cards) or <<>> (arrays).   *)
EXTENDS Integers, Sequences, FiniteSets, TLC

VARIABLES
    WHEEL_RANKS,        \* the global WHEEL_RANKS (line 470); <<>> stands for None
    hand,               \* a Hand object: [cards, hand_ranking]
    hand_to_beat,       \* the Hand passed to Hand.compare
    compare_result,     \* what Hand.compare returned
    hpc,                \* position of the hand-evaluation run
    pc,                 \* position of the program (prompt_user, Question, answer, Trial.run)
    num_players,        \* prompt_user: the number of players entered
    previous_cards,     \* prompt_user: the set of strings recorded for the duplicate check
    hole_cards_input,   \* prompt_user: one accepted line of card names per player
    board_input,        \* prompt_user: one accepted line of card names per board row
    dead_cards_input,   \* prompt_user: the accepted dead card names
    num_trials,         \* prompt_user: the number of trials entered
    deck,               \* Question.deck.cards
    players,            \* Question.players: [player_num, hole_cards, showdown_hand]
    board,              \* Question.board.board_cards, 3 rows of 3 cells
    k,                  \* Question.__init__: specifiers of the current loop already handled
    results,            \* Question.answer: the results array, in units of 1/CreditUnit
    i,                  \* Question.answer: trials finished
    returned,           \* what Question.answer returned (<<>> before it returns)
    t_deck,             \* Trial.deck.cards
    t_players,          \* Trial.players
    t_board,            \* Trial.board.board_cards
    tp,                 \* Trial.run: the player of the dealing loop
    winning_players,    \* what Trial.run returned: the player_num of each winner
    picked,             \* history: the cards Deck.pick returned, in order
    dealt,              \* history: the cards Deck.deal returned in the current Trial
    error               \* the message of the exception that ended the program, or ""

hvars == <<WHEEL_RANKS, hand, hand_to_beat, compare_result, hpc>>

ivars == <<num_players, previous_cards, hole_cards_input, board_input, dead_cards_input,
           num_trials>>

qvars == <<deck, players, board>>

avars == <<results, i, returned>>

tvars == <<t_deck, t_players, t_board, tp, winning_players, dealt>>

mvars == <<pc, ivars, qvars, k, avars, tvars, picked, error>>

vars == <<hvars, mvars>>

-----------------------------------------------------------------------------
(* Bounds of the model *)

\* hands of the hand-evaluation runs are drawn from ranks 2..MaxLowRank and the Ace
MaxLowRank == 7

\* the largest number of trials entered
MaxTrials == 2

\* deals of a Trial that explore more than one outcome of random.choice
MaxFreeDeals == 1

-----------------------------------------------------------------------------
(* Globals, lines 460-470 *)

RANK_NAMES ==
    [r \in 2..14 |->
        CASE r = 14 -> "A" [] r = 13 -> "K" [] r = 12 -> "Q" [] r = 11 -> "J"
          [] r = 10 -> "T" [] r = 9 -> "9" [] r = 8 -> "8" [] r = 7 -> "7"
          [] r = 6 -> "6" [] r = 5 -> "5" [] r = 4 -> "4" [] r = 3 -> "3"
          [] OTHER -> "2"]

SUIT_NAMES ==
    [s \in 1..4 |-> CASE s = 4 -> "s" [] s = 3 -> "h" [] s = 2 -> "d" [] OTHER -> "c"]

DECK_NUM_RANKS == 13

DECK_NUM_SUITS == 4

NUM_HOLE_CARDS == 4

\* the value line 470 assigns to WHEEL_RANKS
WheelRanksDefault == <<14, 5, 4, 3, 2>>

\* WHEEL_RANKS = None ("Assign a value of None if wheels not allowed")
NoWheel == <<>>

-----------------------------------------------------------------------------
(* Card *)

Card(rank, suit) == [rank |-> rank, suit |-> suit]

\* Python's None in a card slot
None == [rank |-> 0, suit |-> 0]

\* Card.name(): RANK_NAMES[rank] + SUIT_NAMES[suit], a two-character string
name(card) == <<RANK_NAMES[card.rank], SUIT_NAMES[card.suit]>>

Range(s) == {s[x] : x \in DOMAIN s}

Max(S) == CHOOSE x \in S : \A y \in S : y <= x

Min(S) == CHOOSE x \in S : \A y \in S : x <= y

-----------------------------------------------------------------------------
(* Hand *)

\* collections.Counter(cards_ranks).items(): the (rank, count) pairs
CounterItems(cards_ranks) ==
    {<<r, Cardinality({x \in DOMAIN cards_ranks : cards_ranks[x] = r})>> :
        r \in Range(cards_ranks)}

\* the sort key with the rank's sign lost, (-count, rank): ties of count sort rank ascending
SortsBeforeRankAscending(a, b) == a[2] > b[2] \/ (a[2] = b[2] /\ a[1] < b[1])

\* the sort key of line 181, (-count, -rank): TRUE when item a sorts before b
SortsBefore(a, b) == a[2] > b[2] \/ (a[2] = b[2] /\ a[1] > b[1])

RECURSIVE SortedItems(_)
SortedItems(items) ==
    IF items = {} THEN <<>>
    ELSE LET first == CHOOSE a \in items : \A b \in items \ {a} : SortsBefore(a, b)
         IN  <<first>> \o SortedItems(items \ {first})

\* ordered_ranks_counts, lines 180-182
OrderedRanksCounts(cards) ==
    SortedItems(CounterItems([x \in DOMAIN cards |-> cards[x].rank]))

\* is_flush, lines 185-189
IsFlush(cards) == \A x \in 1..4 : cards[x].suit = cards[x + 1].suit

\* the wheel test looking only at the four low ranks, whatever the top card is
StraightCheckLowFour(orc, wheel) ==
    IF Len(orc) = 5
    THEN IF orc[1][1] - orc[5][1] = 4
         THEN <<TRUE, orc[1][1]>>
         ELSE IF wheel # NoWheel /\ [x \in 2..5 |-> orc[x][1]] = [x \in 2..5 |-> wheel[x]]
              THEN <<TRUE, orc[2][1]>>
              ELSE <<FALSE, 0>>
    ELSE <<FALSE, 0>>

\* the wheel ranked by its Ace: straight_rank taken from element 0 as for the other straights
StraightCheckAceTop(orc, wheel) ==
    IF Len(orc) = 5
    THEN IF orc[1][1] - orc[5][1] = 4
         THEN <<TRUE, orc[1][1]>>
         ELSE IF wheel # NoWheel /\ [x \in 1..5 |-> orc[x][1]] = wheel
              THEN <<TRUE, orc[1][1]>>
              ELSE <<FALSE, 0>>
    ELSE <<FALSE, 0>>

\* lines 193-205: <<is_straight, straight_rank>>; straight_rank is 0 when unset
StraightCheck(orc, wheel) ==
    IF Len(orc) = 5
    THEN IF orc[1][1] - orc[5][1] = 4
         THEN <<TRUE, orc[1][1]>>
         ELSE IF wheel # NoWheel /\ [x \in 1..5 |-> orc[x][1]] = wheel
              THEN <<TRUE, orc[2][1]>>
              ELSE <<FALSE, 0>>
    ELSE <<FALSE, 0>>

\* hand_ranking[1:1+n] = ordered_ranks_counts[0:n, 0] on np.zeros(6), with [0] = category
RankingOf(category, orc, n) ==
    [x \in 1..6 |-> IF x = 1 THEN category ELSE IF x - 1 <= n THEN orc[x - 1][1] ELSE 0]

\* Hand.get_hand_ranking, lines 155-256
get_hand_ranking(cards, wheel) ==
    LET orc == OrderedRanksCounts(cards)
        is_flush == IsFlush(cards)
        st == StraightCheck(orc, wheel)
        is_straight == st[1]
        straight_rank == st[2]
    IN  IF is_flush
        THEN IF is_straight
             THEN <<9, straight_rank, 0, 0, 0, 0>>
             ELSE RankingOf(6, orc, 5)
        ELSE IF is_straight
        THEN <<5, straight_rank, 0, 0, 0, 0>>
        ELSE IF orc[1][2] = 4
        THEN RankingOf(8, orc, 2)
        ELSE IF orc[1][2] = 3
        THEN IF orc[2][2] = 2 THEN RankingOf(7, orc, 2) ELSE RankingOf(4, orc, 3)
        ELSE IF orc[1][2] = 2
        THEN IF orc[2][2] = 2 THEN RankingOf(3, orc, 3) ELSE RankingOf(2, orc, 4)
        ELSE RankingOf(1, orc, 5)

\* Hand.__init__, lines 148-150
Hand(cards, wheel) == [cards |-> cards, hand_ranking |-> get_hand_ranking(cards, wheel)]

\* no Hand object (best_hand = None, or an attribute not yet created)
NoHand == [cards |-> <<>>, hand_ranking |-> <<>>]

\* Hand.compare, lines 258-268, on the two hand_ranking arrays
compare(self_ranking, to_beat_ranking) ==
    LET diff == {x \in DOMAIN self_ranking : self_ranking[x] # to_beat_ranking[x]}
    IN  IF diff = {} THEN 0
        ELSE LET x == CHOOSE x \in diff : \A y \in diff : x <= y
             IN  IF self_ranking[x] > to_beat_ranking[x] THEN 1 ELSE -1

-----------------------------------------------------------------------------
(* Deck *)

\* Deck.__init__, lines 39-50: suit by suit, ranks 15 - num_ranks .. 14 within a suit
NewDeck(num_ranks, num_suits) ==
    [x \in 1..(num_ranks * num_suits) |->
        Card((15 - num_ranks) + ((x - 1) % num_ranks), ((x - 1) \div num_ranks) + 1)]

\* the deletion forgotten: the array is left as it was
np_delete_none(arr, index) == arr

\* np.delete(arr, index), lines 60 and 69; index counts from 1 here
np_delete(arr, index) ==
    [x \in 1..(Len(arr) - 1) |-> IF x < index THEN arr[x] ELSE arr[x + 1]]

\* the loop of Deck.pick, lines 57-61: the first index whose card has that name; 0 when
\* the loop ends without one (line 62 then raises)
PickIndex(cards, card_name_to_pick) ==
    LET hits == {x \in DOMAIN cards : name(cards[x]) = card_name_to_pick}
    IN  IF hits = {} THEN 0 ELSE Min(hits)

\* random.choice(range(len(cards))), line 67: the outcomes explored are the first and the
\* middle index for the first MaxFreeDeals deals of a Trial, and the first index after
DealKeys(cards, ndealt) ==
    IF ndealt < MaxFreeDeals THEN {1, 1 + (Len(cards) \div 2)} ELSE {1}

-----------------------------------------------------------------------------
(* Board *)

\* Board.__init__, lines 80-81
EmptyBoard == [r \in 1..3 |-> [c \in 1..3 |-> None]]

transpose(b) == [r \in 1..3 |-> [c \in 1..3 |-> b[c][r]]]

fliplr(b) == [r \in 1..3 |-> [c \in 1..3 |-> b[r][4 - c]]]

diag(b) == [x \in 1..3 |-> b[x][x]]

\* Board.generate_board_combos, lines 86-97: rows, columns, the two diagonals
generate_board_combos(board_cards) ==
    [x \in 1..8 |->
        IF x <= 3 THEN board_cards[x]
        ELSE IF x <= 6 THEN transpose(board_cards)[x - 3]
        ELSE IF x = 7 THEN diag(board_cards)
        ELSE diag(fliplr(board_cards))]

\* the cells still None as loops over range(2) in place of range(3) would meet them:
\* the third row is never looked at
EmptyCellsFirstTwoRows(board_cards) ==
    {x \in 0..5 : board_cards[(x \div 3) + 1][(x % 3) + 1] = None}

\* the cells still None, numbered row by row as the loops of lines 338-340 meet them
EmptyCells(board_cards) ==
    {x \in 0..8 : board_cards[(x \div 3) + 1][(x % 3) + 1] = None}

-----------------------------------------------------------------------------
(* Player *)

\* Player.__init__, lines 107-109
Player(player_num) ==
    [player_num |-> player_num,
     hole_cards |-> [x \in 1..NUM_HOLE_CARDS |-> None],
     showdown_hand |-> NoHand]

\* Player.generate_hole_cards_combos, lines 114-123: itertools.combinations(hole_cards, 2)
\* in its lexicographic order of positions
generate_hole_cards_combos(hole_cards) ==
    LET n == Len(hole_cards)
        pairs == {pr \in (1..n) \X (1..n) : pr[1] < pr[2]}
        Ahead(q, pr) == q[1] < pr[1] \/ (q[1] = pr[1] /\ q[2] < pr[2])
        PairAt(x) == CHOOSE pr \in pairs : Cardinality({q \in pairs : Ahead(q, pr)}) = x - 1
    IN  [x \in 1..Cardinality(pairs) |->
            <<hole_cards[PairAt(x)[1]], hole_cards[PairAt(x)[2]]>>]

\* the test with the comparison turned round: a lower hand replaces the best one
ReplacesWhenLower(current_hand, best_hand) ==
    best_hand = NoHand \/ compare(current_hand.hand_ranking, best_hand.hand_ranking) = -1

\* line 136: best_hand == None or current_hand.compare(best_hand) == 1
Replaces(current_hand, best_hand) ==
    best_hand = NoHand \/ compare(current_hand.hand_ranking, best_hand.hand_ranking) = 1

\* the inner loop of lines 134-137 from hole card combo x on, for one board combo
RECURSIVE HoleCombosLoop(_, _, _, _, _)
HoleCombosLoop(hole_cards_combos, x, board_combo, best_hand, wheel) ==
    IF x > Len(hole_cards_combos) THEN best_hand
    ELSE LET current_hand == Hand(hole_cards_combos[x] \o board_combo, wheel)
         IN  IF Replaces(current_hand, best_hand)
             THEN HoleCombosLoop(hole_cards_combos, x + 1, board_combo, current_hand, wheel)
             ELSE HoleCombosLoop(hole_cards_combos, x + 1, board_combo, best_hand, wheel)

\* the outer loop of lines 133-137 from board combo x on
RECURSIVE BoardCombosLoop(_, _, _, _, _)
BoardCombosLoop(board_combos, x, hole_cards_combos, best_hand, wheel) ==
    IF x > Len(board_combos) THEN best_hand
    ELSE BoardCombosLoop(board_combos, x + 1, hole_cards_combos,
            HoleCombosLoop(hole_cards_combos, 1, board_combos[x], best_hand, wheel), wheel)

\* Player.generate_showdown_hand, lines 125-138: board combos in the outer loop, hole
\* card combos in the inner one, each hand np.concatenate((hole_cards_combo, board_combo))
generate_showdown_hand(hole_cards_combos, board_combos, wheel) ==
    BoardCombosLoop(board_combos, 1, hole_cards_combos, NoHand, wheel)

\* the slots of a player still None
EmptySlots(hole_cards) == {x \in DOMAIN hole_cards : hole_cards[x] = None}

-----------------------------------------------------------------------------
(* Trial.run's showdown and Question.answer's accumulation *)

\* the tie branch lost: a player tying the leader is not added
ShowdownStepDropsTie(winning, player_num, result) ==
    IF result = 1 THEN <<player_num>> ELSE winning

\* lines 356-360: a higher hand replaces the winners, an equal one joins them
ShowdownStep(winning, player_num, result) ==
    IF result = 1 THEN <<player_num>>
    ELSE IF result = 0 THEN Append(winning, player_num)
    ELSE winning

\* the loop of lines 354-360 from player x on; winning holds player numbers
RECURSIVE ShowdownLoop(_, _, _)
ShowdownLoop(ps, x, winning) ==
    IF x > Len(ps) THEN winning
    ELSE ShowdownLoop(ps, x + 1,
            ShowdownStep(winning, ps[x].player_num,
                compare(ps[x].showdown_hand.hand_ranking,
                        ps[winning[1]].showdown_hand.hand_ranking)))

\* lines 352-361
Showdown(ps) == ShowdownLoop(ps, 2, <<ps[1].player_num>>)

\* one unit of win credit: 1.0 in the results array, divisible by every winner count 1..10
CreditUnit == 8 * 9 * 5 * 7

\* lines 309-312: results[player.player_num - 1] += 1 / len(trial_winners)
Credited(res, trial_winners) ==
    [x \in DOMAIN res |->
        res[x] + Cardinality({w \in DOMAIN trial_winners : trial_winners[w] = x})
                    * (CreditUnit \div Len(trial_winners))]

-----------------------------------------------------------------------------
(* card_input_validate and the inputs of prompt_user *)

\* the string "*"
STAR == <<"*">>

\* num_cards_required = None
NoCount == 0 - 1

\* set.update(card_name), line 388: every character of the string becomes an element
Chars(card_name) == {<<card_name[x]>> : x \in DOMAIN card_name}

\* lines 378-381
Recognized(card_name) ==
    \/ card_name = STAR
    \/ /\ Len(card_name) = 2
       /\ card_name[1] \in Range(RANK_NAMES)
       /\ card_name[2] \in Range(SUIT_NAMES)

\* the loop of lines 377-389; previous_cards is updated in place, also when it fails
RECURSIVE ValidateLoop(_, _)
ValidateLoop(card_names, prev) ==
    IF card_names = <<>> THEN [ok |-> TRUE, previous_cards |-> prev]
    ELSE LET card_name == Head(card_names)
         IN  IF ~Recognized(card_name) THEN [ok |-> FALSE, previous_cards |-> prev]
             ELSE IF card_name \in prev /\ card_name # STAR
             THEN [ok |-> FALSE, previous_cards |-> prev]
             ELSE ValidateLoop(Tail(card_names), prev \cup Chars(card_name))

\* card_input_validate, lines 364-389
card_input_validate(card_names, prev, num_cards_required) ==
    IF num_cards_required # NoCount /\ Len(card_names) # num_cards_required
    THEN [ok |-> FALSE, previous_cards |-> prev]
    ELSE ValidateLoop(card_names, prev)

\* the name of a card as the user types it
nm(rank, suit) == name(Card(rank, suit))

\* the numbers typed at "Number of players (2-10)?"
NumPlayersInputs == {1, 2, 3, 10, 11}

\* the lines typed at "Player p hole cards:", already split at the commas
HoleCardsLines(p) ==
    {[x \in 1..4 |-> STAR], <<STAR, STAR>>, <<<<"X", "x">>, STAR, STAR, STAR>>}
    \cup (IF p = 1 THEN {<<nm(14, 3), nm(13, 1), nm(3, 2), nm(4, 3)>>,
                         <<nm(14, 4), nm(14, 4), nm(13, 2), nm(12, 1)>>}
          ELSE IF p = 2 THEN {<<nm(14, 2), nm(13, 3), nm(3, 4), nm(4, 1)>>}
          ELSE IF p = 3 THEN {<<nm(9, 4), nm(8, 4), nm(5, 2), nm(6, 3)>>}
          ELSE {})

\* the lines typed at "Board row r:"
BoardRowLines(r) ==
    {[x \in 1..3 |-> STAR], <<STAR, STAR, STAR, STAR>>}
    \cup (IF r = 1 THEN {<<nm(12, 4), nm(11, 4), nm(10, 4)>>}
          ELSE IF r = 2 THEN {<<nm(7, 2), nm(2, 3), nm(8, 1)>>}
          ELSE {})

\* the lines typed at "Dead cards:"; <<"">> is the empty line
DeadCardsLines ==
    {<< <<>> >>, <<nm(2, 1), nm(3, 1), nm(4, 1), nm(5, 1)>>, <<STAR>>,
     <<nm(2, 1), <<"1", "0", "h">>>>}

\* the numbers typed at "Number of trials?"
NumTrialsInputs == 0..MaxTrials

-----------------------------------------------------------------------------
(* The program: prompt_user, Question.__init__, Question.answer, Trial.run *)

HandIdle ==
    /\ hand = NoHand
    /\ hand_to_beat = NoHand
    /\ compare_result = 0
    /\ hpc = "idle"

Init ==
    /\ WHEEL_RANKS = WheelRanksDefault
    /\ HandIdle
    /\ pc = "num_players"
    /\ num_players = 0
    /\ previous_cards = {}
    /\ hole_cards_input = <<>>
    /\ board_input = <<>>
    /\ dead_cards_input = <<>>
    /\ num_trials = 0
    /\ deck = <<>>
    /\ players = <<>>
    /\ board = EmptyBoard
    /\ k = 0
    /\ results = <<>>
    /\ i = 0
    /\ returned = <<>>
    /\ t_deck = <<>>
    /\ t_players = <<>>
    /\ t_board = EmptyBoard
    /\ tp = 0
    /\ winning_players = <<>>
    /\ picked = <<>>
    /\ dealt = <<>>
    /\ error = ""

\* lines 401-410
PromptNumPlayers ==
    /\ pc = "num_players"
    /\ \E n \in NumPlayersInputs :
        IF n > 1 /\ n < 11
        THEN num_players' = n /\ pc' = "hole_cards"
        ELSE UNCHANGED <<num_players, pc>>
    /\ UNCHANGED <<hvars, previous_cards, hole_cards_input, board_input, dead_cards_input,
                   num_trials, qvars, k, avars, tvars, picked, error>>

\* lines 418-424, one pass of the while loop of the player being asked
PromptHoleCards ==
    /\ pc = "hole_cards"
    /\ \E card_names \in HoleCardsLines(Len(hole_cards_input) + 1) :
        LET v == card_input_validate(card_names, previous_cards, NUM_HOLE_CARDS)
        IN  IF v.ok
            THEN /\ previous_cards' = v.previous_cards \cup Range(card_names)
                 /\ hole_cards_input' = Append(hole_cards_input, card_names)
                 /\ pc' = IF Len(hole_cards_input) + 1 = num_players THEN "board" ELSE pc
            ELSE /\ previous_cards' = v.previous_cards
                 /\ UNCHANGED <<hole_cards_input, pc>>
    /\ UNCHANGED <<hvars, num_players, board_input, dead_cards_input, num_trials, qvars, k,
                   avars, tvars, picked, error>>

\* lines 427-433
PromptBoardRow ==
    /\ pc = "board"
    /\ \E card_names \in BoardRowLines(Len(board_input) + 1) :
        LET v == card_input_validate(card_names, previous_cards, 3)
        IN  IF v.ok
            THEN /\ previous_cards' = v.previous_cards \cup Range(card_names)
                 /\ board_input' = Append(board_input, card_names)
                 /\ pc' = IF Len(board_input) + 1 = 3 THEN "dead_cards" ELSE pc
            ELSE /\ previous_cards' = v.previous_cards
                 /\ UNCHANGED <<board_input, pc>>
    /\ UNCHANGED <<hvars, num_players, hole_cards_input, dead_cards_input, num_trials, qvars,
                   k, avars, tvars, picked, error>>

\* lines 435-444
PromptDeadCards ==
    /\ pc = "dead_cards"
    /\ \E card_names \in DeadCardsLines :
        IF Len(card_names) = 1 /\ card_names[1] = <<>>
        THEN /\ dead_cards_input' = <<>>
             /\ pc' = "num_trials"
             /\ UNCHANGED previous_cards
        ELSE LET v == card_input_validate(card_names, previous_cards, NoCount)
             IN  /\ previous_cards' = v.previous_cards
                 /\ IF v.ok
                    THEN dead_cards_input' = card_names /\ pc' = "num_trials"
                    ELSE UNCHANGED <<dead_cards_input, pc>>
    /\ UNCHANGED <<hvars, num_players, hole_cards_input, board_input, num_trials, qvars, k,
                   avars, tvars, picked, error>>

\* lines 446-457; prompt_user returns and its local previous_cards is gone
PromptNumTrials ==
    /\ pc = "num_trials"
    /\ \E n \in NumTrialsInputs :
        IF n > 0
        THEN num_trials' = n /\ pc' = "Question" /\ previous_cards' = {}
        ELSE UNCHANGED <<num_trials, pc, previous_cards>>
    /\ UNCHANGED <<hvars, num_players, hole_cards_input, board_input, dead_cards_input,
                   qvars, k, avars, tvars, picked, error>>

\* Question.__init__, lines 280-283
QuestionNew ==
    /\ pc = "Question"
    /\ deck' = NewDeck(DECK_NUM_RANKS, DECK_NUM_SUITS)
    /\ players' = <<>>
    /\ board' = EmptyBoard
    /\ k' = 0
    /\ pc' = "q_hole_cards"
    /\ UNCHANGED <<hvars, ivars, avars, tvars, picked, error>>

\* Question.__init__, lines 285-291: one pass of the inner loop
QuestionHoleCard ==
    /\ pc = "q_hole_cards"
    /\ LET p == (k \div NUM_HOLE_CARDS) + 1
           j == (k % NUM_HOLE_CARDS) + 1
           card_name == hole_cards_input[p][j]
           ps == IF j = 1 THEN Append(players, Player(p)) ELSE players
           index == PickIndex(deck, card_name)
       IN  IF card_name # STAR /\ index = 0
           THEN /\ error' = "Card picked not in deck"
                /\ pc' = "error"
                /\ players' = ps
                /\ UNCHANGED <<deck, picked, k>>
           ELSE /\ IF card_name # STAR
                   THEN /\ players' = [ps EXCEPT ![p].hole_cards[j] = deck[index]]
                        /\ deck' = np_delete(deck, index)
                        /\ picked' = Append(picked, deck[index])
                   ELSE /\ players' = ps
                        /\ UNCHANGED <<deck, picked>>
                /\ IF k + 1 = num_players * NUM_HOLE_CARDS
                   THEN k' = 0 /\ pc' = "q_board"
                   ELSE k' = k + 1 /\ pc' = pc
                /\ UNCHANGED error
    /\ UNCHANGED <<hvars, ivars, board, avars, tvars>>

\* Question.__init__, lines 293-296: one pass of the inner loop
QuestionBoardCard ==
    /\ pc = "q_board"
    /\ LET r == (k \div 3) + 1
           c == (k % 3) + 1
           card_name == board_input[r][c]
           index == PickIndex(deck, card_name)
       IN  IF card_name # STAR /\ index = 0
           THEN /\ error' = "Card picked not in deck"
                /\ pc' = "error"
                /\ UNCHANGED <<deck, board, picked, k>>
           ELSE /\ IF card_name # STAR
                   THEN /\ board' = [board EXCEPT ![r][c] = deck[index]]
                        /\ deck' = np_delete(deck, index)
                        /\ picked' = Append(picked, deck[index])
                   ELSE UNCHANGED <<deck, board, picked>>
                /\ IF k + 1 = 9
                   THEN k' = 0 /\ pc' = "q_dead_cards"
                   ELSE k' = k + 1 /\ pc' = pc
                /\ UNCHANGED error
    /\ UNCHANGED <<hvars, ivars, players, avars, tvars>>

\* Question.__init__, lines 298-299: one pass of the loop
QuestionDeadCard ==
    /\ pc = "q_dead_cards"
    /\ k < Len(dead_cards_input)
    /\ LET index == PickIndex(deck, dead_cards_input[k + 1])
       IN  IF index = 0
           THEN /\ error' = "Card picked not in deck"
                /\ pc' = "error"
                /\ UNCHANGED <<deck, picked, k>>
           ELSE /\ deck' = np_delete(deck, index)
                /\ picked' = Append(picked, deck[index])
                /\ k' = k + 1
                /\ UNCHANGED <<pc, error>>
    /\ UNCHANGED <<hvars, ivars, players, board, avars, tvars>>

\* Question.__init__ returns; Question.answer, line 306
AnswerStart ==
    /\ pc = "q_dead_cards"
    /\ k = Len(dead_cards_input)
    /\ results' = [x \in 1..Len(players) |-> 0]
    /\ i' = 0
    /\ pc' = "answer"
    /\ UNCHANGED <<hvars, ivars, qvars, k, returned, tvars, picked, error>>

\* Question.answer, line 308, and Trial.__init__, lines 326-330: the deep copies
AnswerTrial ==
    /\ pc = "answer"
    /\ i < num_trials
    /\ t_players' = players
    /\ t_board' = board
    /\ t_deck' = deck
    /\ dealt' = <<>>
    /\ pc' = "t_board"
    /\ UNCHANGED <<hvars, ivars, qvars, k, avars, tp, winning_players, picked, error>>

\* self.deck.deal() in Trial.run with the index random.choice drew, lines 67-70, as if
\* the Trial had kept the Question's deck: the Question's deck loses the card too
Trial_deal_shared(card_key) ==
    /\ t_deck' = np_delete(t_deck, card_key)
    /\ dealt' = Append(dealt, t_deck[card_key])
    /\ deck' = t_deck'

\* self.deck.deal() in Trial.run with the index random.choice drew, lines 67-70: the
\* deck is the Trial's deep copy (line 330), so the Question's deck is not written
Trial_deal(card_key) ==
    /\ t_deck' = np_delete(t_deck, card_key)
    /\ dealt' = Append(dealt, t_deck[card_key])
    /\ deck' = deck

\* Trial.run, lines 338-341: the loops up to and with the next None cell
TrialDealBoard ==
    /\ pc = "t_board"
    /\ EmptyCells(t_board) # {}
    /\ LET x == Min(EmptyCells(t_board))
       IN  IF Len(t_deck) > 0
           THEN /\ \E card_key \in DealKeys(t_deck, Len(dealt)) :
                    /\ Trial_deal(card_key)
                    /\ t_board' = [t_board EXCEPT ![(x \div 3) + 1][(x % 3) + 1] = t_deck[card_key]]
                /\ UNCHANGED <<pc, error>>
           ELSE /\ error' = "No more cards in deck"
                /\ pc' = "error"
                /\ UNCHANGED <<deck, t_deck, t_board, dealt>>
    /\ UNCHANGED <<hvars, ivars, players, board, k, avars, t_players, tp, winning_players,
                   picked>>

\* Trial.run, line 342, once no cell is None: board_combos is computed from t_board
TrialBoardCombos ==
    /\ pc = "t_board"
    /\ EmptyCells(t_board) = {}
    /\ tp' = 1
    /\ pc' = "t_players"
    /\ UNCHANGED <<hvars, ivars, qvars, k, avars, t_deck, t_players, t_board,
                   winning_players, dealt, picked, error>>

\* Trial.run, lines 346-348: the loop up to and with the next None slot of player tp
TrialDealHoleCard ==
    /\ pc = "t_players"
    /\ EmptySlots(t_players[tp].hole_cards) # {}
    /\ LET x == Min(EmptySlots(t_players[tp].hole_cards))
       IN  IF Len(t_deck) > 0
           THEN /\ \E card_key \in DealKeys(t_deck, Len(dealt)) :
                    /\ Trial_deal(card_key)
                    /\ t_players' = [t_players EXCEPT ![tp].hole_cards[x] = t_deck[card_key]]
                /\ UNCHANGED <<pc, error>>
           ELSE /\ error' = "No more cards in deck"
                /\ pc' = "error"
                /\ UNCHANGED <<deck, t_deck, t_players, dealt>>
    /\ UNCHANGED <<hvars, ivars, players, board, k, avars, t_board, tp, winning_players,
                   picked>>

\* Trial.run, lines 349-350, for player tp, and the step of the loop of line 345
TrialShowdownHand ==
    /\ pc = "t_players"
    /\ EmptySlots(t_players[tp].hole_cards) = {}
    /\ t_players' =
        [t_players EXCEPT ![tp].showdown_hand =
            generate_showdown_hand(generate_hole_cards_combos(t_players[tp].hole_cards),
                                   generate_board_combos(t_board), WHEEL_RANKS)]
    /\ IF tp = Len(t_players)
       THEN pc' = "showdown" /\ tp' = tp
       ELSE pc' = pc /\ tp' = tp + 1
    /\ UNCHANGED <<hvars, ivars, qvars, k, avars, t_deck, t_board, winning_players, dealt,
                   picked, error>>

\* Trial.run, lines 352-361
TrialShowdown ==
    /\ pc = "showdown"
    /\ winning_players' = Showdown(t_players)
    /\ pc' = "credit"
    /\ UNCHANGED <<hvars, ivars, qvars, k, avars, t_deck, t_players, t_board, tp, dealt,
                   picked, error>>

\* Question.answer, lines 309-312; the Trial object is dropped
AnswerCredit ==
    /\ pc = "credit"
    /\ results' = Credited(results, winning_players)
    /\ i' = i + 1
    /\ t_deck' = <<>>
    /\ t_players' = <<>>
    /\ t_board' = EmptyBoard
    /\ tp' = 0
    /\ winning_players' = <<>>
    /\ dealt' = <<>>
    /\ pc' = "answer"
    /\ UNCHANGED <<hvars, ivars, qvars, k, returned, picked, error>>

\* Question.answer, line 318, after the last trial
AnswerReturn ==
    /\ pc = "answer"
    /\ i = num_trials
    /\ returned' = results
    /\ pc' = "done"
    /\ UNCHANGED <<hvars, ivars, qvars, k, results, i, tvars, picked, error>>

\* the loop of lines 472-475: after answer() returns, prompt_user starts afresh
MainLoop ==
    /\ pc = "done"
    /\ pc' = "num_players"
    /\ num_players' = 0
    /\ previous_cards' = {}
    /\ hole_cards_input' = <<>>
    /\ board_input' = <<>>
    /\ dead_cards_input' = <<>>
    /\ num_trials' = 0
    /\ deck' = <<>>
    /\ players' = <<>>
    /\ board' = EmptyBoard
    /\ k' = 0
    /\ results' = <<>>
    /\ i' = 0
    /\ returned' = <<>>
    /\ picked' = <<>>
    /\ UNCHANGED <<hvars, tvars, error>>

Next ==
    \/ PromptNumPlayers
    \/ PromptHoleCards
    \/ PromptBoardRow
    \/ PromptDeadCards
    \/ PromptNumTrials
    \/ QuestionNew
    \/ QuestionHoleCard
    \/ QuestionBoardCard
    \/ QuestionDeadCard
    \/ AnswerStart
    \/ AnswerTrial
    \/ TrialDealBoard
    \/ TrialBoardCombos
    \/ TrialDealHoleCard
    \/ TrialShowdownHand
    \/ TrialShowdown
    \/ AnswerCredit
    \/ AnswerReturn
    \/ MainLoop

Spec == Init /\ [][Next]_vars

-----------------------------------------------------------------------------
(* Hand evaluation on its own: every 5-card hand of the bounded ranks *)

\* the x-th card of the bounded ranks in deck order (suit-major, as Deck.__init__ builds them)
PoolCard(x) ==
    LET n == MaxLowRank
        j == ((x - 1) % n) + 1
    IN  Card(IF j = n THEN 14 ELSE j + 1, ((x - 1) \div n) + 1)

PoolSize == MaxLowRank * DECK_NUM_SUITS

\* the hands a hand is compared with: a 6-high straight and a 6-high straight flush
ReferenceHands ==
    { <<Card(6, 1), Card(5, 2), Card(4, 3), Card(3, 4), Card(2, 1)>>,
      <<Card(6, 3), Card(5, 3), Card(4, 3), Card(3, 3), Card(2, 3)>> }

\* the program is not running
ProgramIdle ==
    /\ pc = "idle"
    /\ num_players = 0
    /\ previous_cards = {}
    /\ hole_cards_input = <<>>
    /\ board_input = <<>>
    /\ dead_cards_input = <<>>
    /\ num_trials = 0
    /\ deck = <<>>
    /\ players = <<>>
    /\ board = EmptyBoard
    /\ k = 0
    /\ results = <<>>
    /\ i = 0
    /\ returned = <<>>
    /\ t_deck = <<>>
    /\ t_players = <<>>
    /\ t_board = EmptyBoard
    /\ tp = 0
    /\ winning_players = <<>>
    /\ picked = <<>>
    /\ dealt = <<>>
    /\ error = ""

HandInit ==
    /\ ProgramIdle
    /\ WHEEL_RANKS \in {WheelRanksDefault, NoWheel}
    \* every hand of 5 distinct cards of the pool, listed in pool order
    /\ \E a \in 1..PoolSize : \E b \in (a + 1)..PoolSize : \E c \in (b + 1)..PoolSize :
       \E d \in (c + 1)..PoolSize : \E e \in (d + 1)..PoolSize :
          hand = [cards |-> <<PoolCard(a), PoolCard(b), PoolCard(c), PoolCard(d), PoolCard(e)>>,
                  hand_ranking |-> <<>>]
    /\ hand_to_beat = NoHand
    /\ compare_result = 0
    /\ hpc = "new"

\* Hand.__init__ calling get_hand_ranking
HandRank ==
    /\ hpc = "new"
    /\ hand' = Hand(hand.cards, WHEEL_RANKS)
    /\ hpc' = "ranked"
    /\ UNCHANGED <<WHEEL_RANKS, hand_to_beat, compare_result, mvars>>

\* hand.compare(hand_to_beat)
HandCompare ==
    /\ hpc = "ranked"
    /\ \E cards \in ReferenceHands :
        /\ hand_to_beat' = Hand(cards, WHEEL_RANKS)
        /\ compare_result' = compare(hand.hand_ranking, hand_to_beat'.hand_ranking)
    /\ hpc' = "compared"
    /\ UNCHANGED <<WHEEL_RANKS, hand, mvars>>

HandNext == HandRank \/ HandCompare

SpecHand == HandInit /\ [][HandNext]_vars

-----------------------------------------------------------------------------
(* Properties of hand evaluation, checked under SpecHand *)

\* the hand has been ranked (Hand.__init__ has returned)
Ranked == hand.hand_ranking # <<>>

RanksOf(cards) == {cards[x].rank : x \in DOMAIN cards}

SuitsOf(cards) == {cards[x].suit : x \in DOMAIN cards}

\* how many cards of the hand have rank r
CountOf(cards, r) == Cardinality({x \in DOMAIN cards : cards[x].rank = r})

\* the hand's distinct ranks, count descending and then rank descending
GroupRanks(cards) ==
    LET rs == RanksOf(cards)
        Ahead(q, r) ==
            \/ CountOf(cards, q) > CountOf(cards, r)
            \/ (CountOf(cards, q) = CountOf(cards, r) /\ q > r)
    IN  [x \in 1..Cardinality(rs) |->
            CHOOSE r \in rs : Cardinality({q \in rs : Ahead(q, r)}) = x - 1]

\* a run of 5 consecutive ranks, or the enabled wheel
PlainStraight(cards) ==
    Cardinality(RanksOf(cards)) = 5 /\ Max(RanksOf(cards)) - Min(RanksOf(cards)) = 4

WheelStraight(cards, wheel) ==
    /\ wheel # NoWheel
    /\ ~PlainStraight(cards)
    /\ Cardinality(RanksOf(cards)) = 5
    /\ RanksOf(cards) = Range(wheel)

\* the category by the first match of: straight flush, four of a kind, full house,
\* flush, straight, three of a kind, two pair, one pair, high card
FirstMatchCategory(cards, wheel) ==
    LET g == GroupRanks(cards)
        top == CountOf(cards, g[1])
        second == CountOf(cards, g[2])
        flush == Cardinality(SuitsOf(cards)) = 1
        straight == PlainStraight(cards) \/ WheelStraight(cards, wheel)
    IN  CASE straight /\ flush -> 9
          [] top = 4 -> 8
          [] top = 3 /\ second = 2 -> 7
          [] flush -> 6
          [] straight -> 5
          [] top = 3 -> 4
          [] top = 2 /\ second = 2 -> 3
          [] top = 2 -> 2
          [] OTHER -> 1

\* the 6-slot key: the category, its tiebreaks, and 0 in every unused slot
FirstMatchKey(cards, wheel) ==
    LET cat == FirstMatchCategory(cards, wheel)
        g == GroupRanks(cards)
        tiebreaks ==
            IF cat \in {5, 9}
            THEN <<IF PlainStraight(cards) THEN Max(RanksOf(cards))
                   ELSE Max(RanksOf(cards) \ {14})>>
            ELSE g
    IN  [x \in 1..6 |->
            IF x = 1 THEN cat ELSE IF x - 1 <= Len(tiebreaks) THEN tiebreaks[x - 1] ELSE 0]

SevenHigh == {Card(7, 1), Card(5, 2), Card(4, 3), Card(3, 4), Card(2, 1)}

\* C2 as stated: with the wheel enabled, {7c,5d,4h,3s,2c} is a straight (category 5)
\* with top rank 5.
C2_AsStated ==
    (Ranked /\ WHEEL_RANKS = WheelRanksDefault /\ Range(hand.cards) = SevenHigh)
        => (hand.hand_ranking[1] = 5 /\ hand.hand_ranking[2] = 5)

\* C2 amended: with the wheel enabled, {7c,5d,4h,3s,2c} is a high card hand (category 1)
\* with tiebreaks 7,5,4,3,2: its ranks are no run of five and are not the wheel's.
C2_SevenHighIsHighCard ==
    (Ranked /\ WHEEL_RANKS = WheelRanksDefault /\ Range(hand.cards) = SevenHigh)
        => hand.hand_ranking = <<1, 7, 5, 4, 3, 2>>

C2_Witness ==
    /\ hpc = "ranked"
    /\ WHEEL_RANKS = WheelRanksDefault
    /\ Range(hand.cards) = SevenHigh
    /\ hand.hand_ranking[1] = 1

\* C3: for every hand of 5 distinct cards of one deck, get_hand_ranking (flush and
\* straight tested first) yields the key of the first-match order 9,8,7,6,5,4,3,2,1 with
\* the tiebreaks of each category and 0 in the unused slots.
C3_FirstMatchOrder ==
    hpc = "ranked" => hand.hand_ranking = FirstMatchKey(hand.cards, WHEEL_RANKS)

\* a flush that is no straight: the code decides it before looking at the counts
C3_Witness ==
    /\ hpc = "ranked"
    /\ hand.hand_ranking[1] = 6
    /\ Cardinality(SuitsOf(hand.cards)) = 1

\* C4: the Ace-low wheel is a straight exactly when enabled. Enabled: ranks {A,5,4,3,2}
\* give a straight (flush: straight flush) with top rank 5, which loses to the 6-high
\* straight of its own category. Disabled: the key is high card (flush: a flush) with
\* tiebreaks 14,5,4,3,2, so {5h,4d,3c,2s,Ah} is category 1.
C4_WheelWhenEnabled ==
    (Ranked /\ RanksOf(hand.cards) = {14, 5, 4, 3, 2}) =>
        LET flush == Cardinality(SuitsOf(hand.cards)) = 1
        IN  IF WHEEL_RANKS = WheelRanksDefault
            THEN /\ hand.hand_ranking = <<IF flush THEN 9 ELSE 5, 5, 0, 0, 0, 0>>
                 /\ (hpc = "compared" /\ hand_to_beat.hand_ranking[1] = hand.hand_ranking[1])
                        => (hand_to_beat.hand_ranking[2] = 6 /\ compare_result = -1)
            ELSE hand.hand_ranking = <<IF flush THEN 6 ELSE 1, 14, 5, 4, 3, 2>>

C4_Witness ==
    /\ hpc = "compared"
    /\ WHEEL_RANKS = WheelRanksDefault
    /\ RanksOf(hand.cards) = {14, 5, 4, 3, 2}
    /\ hand.hand_ranking = <<5, 5, 0, 0, 0, 0>>
    /\ hand_to_beat.hand_ranking = <<5, 6, 0, 0, 0, 0>>
    /\ compare_result = -1

\* the wheel-disabled case of C4 is reached too
C4_DisabledReached ==
    /\ hpc = "ranked"
    /\ WHEEL_RANKS = NoWheel
    /\ Range(hand.cards) = {Card(5, 3), Card(4, 2), Card(3, 1), Card(2, 4), Card(14, 3)}
    /\ hand.hand_ranking = <<1, 14, 5, 4, 3, 2>>

-----------------------------------------------------------------------------
(* Properties of the program, checked under Spec *)

RECURSIVE SumSeq(_)
SumSeq(s) == IF s = <<>> THEN 0 ELSE Head(s) + SumSeq(Tail(s))

NoDuplicates(s) == Cardinality(Range(s)) = Len(s)

\* the positions before Question.__init__ has built the deck
PromptPositions == {"idle", "num_players", "hole_cards", "board", "dead_cards", "num_trials",
                    "Question"}

\* a Trial object exists
InTrial == t_players # <<>>

\* C1 as stated: the array answer() returns holds each player's accumulated credit
\* divided by N; every value lies in [0,1] and the values sum to 1.
C1_AsStated ==
    pc = "done" =>
        /\ \A p \in DOMAIN returned :
            /\ returned[p] * num_trials = results[p]
            /\ returned[p] >= 0
            /\ returned[p] <= CreditUnit
        /\ SumSeq(returned) = CreditUnit

\* the three cells of each of the 8 lines of the board, as (row, column) pairs
BoardLines ==
    {<<<<r, 1>>, <<r, 2>>, <<r, 3>>>> : r \in 1..3}
    \cup {<<<<1, c>>, <<2, c>>, <<3, c>>>> : c \in 1..3}
    \cup {<<<<1, 1>>, <<2, 2>>, <<3, 3>>>>, <<<<1, 3>>, <<2, 2>>, <<3, 1>>>>}

\* the 48 candidate hands: 2 of the hole cards with the 3 cards of a line
CandidateHands(hole_cards, board_cards) ==
    {<<hole_cards[pr[1]], hole_cards[pr[2]], board_cards[l[1][1]][l[1][2]],
       board_cards[l[2][1]][l[2][2]], board_cards[l[3][1]][l[3][2]]>> :
        pr \in {q \in (DOMAIN hole_cards) \X (DOMAIN hole_cards) : q[1] < q[2]},
        l \in BoardLines}

\* the player whose showdown hand Trial.run has just computed: the last player, or the
\* one before a player whose own loop has not begun
LastShown ==
    IF pc = "showdown" THEN {Len(t_players)}
    ELSE IF pc = "t_players" /\ tp > 1 /\ t_players[tp] = players[tp] THEN {tp - 1}
    ELSE {}

\* C5: the showdown hand generate_showdown_hand chooses is one of the 48 candidate hands
\* (6 hole-card pairs x 8 board lines) and its key is >= the key of every candidate.
C5_ShowdownHandIsBest ==
    \A p \in LastShown :
        LET h == t_players[p].showdown_hand
            cands == CandidateHands(t_players[p].hole_cards, t_board)
        IN  /\ Cardinality({Range(c) : c \in cands}) = 48
            /\ \E c \in cands : Range(c) = Range(h.cards)
            /\ h.hand_ranking = get_hand_ranking(h.cards, WHEEL_RANKS)
            /\ \A c \in cands :
                compare(h.hand_ranking, get_hand_ranking(c, WHEEL_RANKS)) >= 0

\* a showdown hand that beats some candidate and lies on the second diagonal
C5_Witness ==
    /\ pc = "showdown"
    /\ \E p \in DOMAIN t_players :
        LET h == t_players[p].showdown_hand
        IN  /\ {t_board[1][3], t_board[2][2], t_board[3][1]} \subseteq Range(h.cards)
            /\ \E c \in CandidateHands(t_players[p].hole_cards, t_board) :
                compare(h.hand_ranking, get_hand_ranking(c, WHEEL_RANKS)) = 1

\* the cards in the hole card slots and board cells that are not None
PlacedSet(ps, board_cards) ==
    (UNION {Range(ps[p].hole_cards) : p \in DOMAIN ps}
        \cup UNION {Range(board_cards[r]) : r \in 1..3}) \ {None}

\* how many hole card slots and board cells are not None
PlacedCount(ps, board_cards) ==
    Cardinality({<<p, x>> \in (DOMAIN ps) \X (1..NUM_HOLE_CARDS) : ps[p].hole_cards[x] # None})
    + Cardinality({<<r, c>> \in (1..3) \X (1..3) : board_cards[r][c] # None})

\* C6: after any sequence of pick and deal, the deck holds exactly the initial cards
\* minus those removed so far, without duplicates, and no card is in two places among
\* the deck, the board cells and the hole card slots (of the Question, and of a Trial).
C6_DeckInvariant ==
    pc \notin PromptPositions =>
        /\ NoDuplicates(deck)
        /\ NoDuplicates(picked)
        /\ Range(deck) = Range(NewDeck(DECK_NUM_RANKS, DECK_NUM_SUITS)) \ Range(picked)
        /\ PlacedCount(players, board) = Cardinality(PlacedSet(players, board))
        /\ PlacedSet(players, board) \cap Range(deck) = {}
        /\ InTrial =>
            /\ NoDuplicates(t_deck)
            /\ NoDuplicates(dealt)
            /\ Range(t_deck) = Range(deck) \ Range(dealt)
            /\ PlacedCount(t_players, t_board) = Cardinality(PlacedSet(t_players, t_board))
            /\ PlacedSet(t_players, t_board) \cap Range(t_deck) = {}
            /\ PlacedSet(t_players, t_board) = PlacedSet(players, board) \cup Range(dealt)

C6_Witness ==
    /\ pc = "showdown"
    /\ Len(picked) > 2
    /\ Len(dealt) > 2
    /\ Len(t_deck) = DECK_NUM_RANKS * DECK_NUM_SUITS - Len(picked) - Len(dealt)

\* every card name the accepted input gives, hole cards, board rows and dead cards
RECURSIVE Flatten(_)
Flatten(lines) == IF lines = <<>> THEN <<>> ELSE Head(lines) \o Flatten(Tail(lines))

AcceptedNames == Flatten(hole_cards_input) \o Flatten(board_input) \o dead_cards_input

NoIdentifierTwice ==
    \A a, b \in DOMAIN AcceptedNames :
        (a # b /\ AcceptedNames[a] # STAR) => AcceptedNames[a] # AcceptedNames[b]

\* C7 as stated: input the validation accepted names no concrete card twice across hole
\* cards, board cells and dead cards, so Question construction never fails with
\* 'Card picked not in deck'.
C7_AsStated ==
    /\ pc \in {"error", "answer"} => NoIdentifierTwice
    /\ error # "Card picked not in deck"

\* C8 as stated: on every accepted input answer() runs exactly N trials and none fails
\* with 'No more cards in deck'.
C8_AsStated ==
    /\ error # "No more cards in deck"
    /\ pc = "done" => i = num_trials

\* the players no other player's showdown hand beats
MaximalPlayers(ps) ==
    {p \in DOMAIN ps : \A q \in DOMAIN ps :
        compare(ps[p].showdown_hand.hand_ranking, ps[q].showdown_hand.hand_ranking) >= 0}

\* C9: the winner set Trial.run returns is nonempty and holds exactly the players whose
\* showdown key is maximal: each of them once, and no player with a lower key.
C9_WinnersAreMaximal ==
    pc = "credit" =>
        /\ winning_players # <<>>
        /\ NoDuplicates(winning_players)
        /\ Range(winning_players) = {t_players[p].player_num : p \in MaximalPlayers(t_players)}

\* two players tie, a later player beats them and wins alone
C9_Witness ==
    /\ pc = "credit"
    /\ \E a, b, c \in DOMAIN t_players :
        /\ a < b /\ b < c
        /\ t_players[a].showdown_hand.hand_ranking = t_players[b].showdown_hand.hand_ranking
        /\ compare(t_players[c].showdown_hand.hand_ranking,
                   t_players[a].showdown_hand.hand_ranking) = 1
        /\ winning_players = <<c>>

\* the positions of Question.answer and of the Trial it runs
AnswerPositions == {"answer", "t_board", "t_players", "showdown", "credit"}

\* C10: running trials leaves the Question's deck, board and players as they were, and
\* every Trial starts from copies of them.
C10_TemplateUnchanged ==
    [][/\ pc \in AnswerPositions =>
            (deck' = deck /\ board' = board /\ players' = players)
       /\ (pc = "answer" /\ pc' = "t_board") =>
            (t_deck' = deck /\ t_board' = board /\ t_players' = players)]_vars

\* a second trial under way, cards dealt, the Question's deck still short only of the picks
C10_Witness ==
    /\ i >= 1
    /\ pc = "showdown"
    /\ Len(dealt) > 0
    /\ Len(deck) = DECK_NUM_RANKS * DECK_NUM_SUITS - Len(picked)
    /\ Len(t_deck) < Len(deck)

\* how many board cells and hole card slots are None
NoneCount(ps, board_cards) ==
    9 + NUM_HOLE_CARDS * Len(ps) - PlacedCount(ps, board_cards)

\* the positions of Trial.run after the board lines are computed (line 342)
AfterBoardCombos == {"t_players", "showdown", "credit"}

\* the positions of Trial.run after the last deal: at the showdown, and finished
AfterDeals == {"showdown", "credit"}

\* C11: a trial deals exactly one card for each empty board cell and each empty hole
\* card slot and none for a filled one: at every point of Trial.run the Trial's deck
\* is smaller than the Question's by the number of cells and slots filled so far, the
\* cards fixed in the Question are where they were, all 9 board cells are concrete
\* once the board lines are computed, and when Trial.run finishes the deck is smaller
\* by (empty board cells + empty hole card slots), 17 for 2 players with no fixed card.
C11_DealsOnePerEmpty ==
    InTrial =>
        /\ \A r \in 1..3 : \A c \in 1..3 :
            board[r][c] # None => t_board[r][c] = board[r][c]
        /\ \A p \in DOMAIN players : \A x \in 1..NUM_HOLE_CARDS :
            players[p].hole_cards[x] # None =>
                t_players[p].hole_cards[x] = players[p].hole_cards[x]
        /\ Len(deck) - Len(t_deck)
            = PlacedCount(t_players, t_board) - PlacedCount(players, board)
        /\ Len(dealt) = Len(deck) - Len(t_deck)
        /\ pc \in AfterBoardCombos =>
            \A r \in 1..3 : \A c \in 1..3 : t_board[r][c] # None
        /\ pc \in AfterDeals =>
            /\ NoneCount(t_players, t_board) = 0
            /\ Len(t_deck) = Len(deck) - NoneCount(players, board)
            /\ (Len(players) = 2 /\ PlacedCount(players, board) = 0) =>
                Len(deck) - Len(t_deck) = 17

\* Trial.run has finished for 2 players with every card wild: 17 cards dealt from 52
C11_Witness ==
    /\ pc = "credit"
    /\ Len(players) = 2
    /\ NoneCount(players, board) = 17
    /\ Len(deck) = DECK_NUM_RANKS * DECK_NUM_SUITS
    /\ Len(t_deck) = Len(deck) - 17
    /\ Len(winning_players) > 0

\* Trial.run has finished on a board and hole cards partly fixed: fewer cards dealt
C11_WitnessFixed ==
    /\ pc = "credit"
    /\ PlacedCount(players, board) > 3
    /\ NoneCount(players, board) > 0
    /\ Len(t_deck) = Len(deck) - NoneCount(players, board)

=============================================================================
